---- MODULE Spec2Model ----
(***************************************************************************)
(* Model of app/routes/app._index.tsx: the route's server-side `action`     *)
(* handler (validation, update path, generate path) and the client-side    *)
(* `Index` component (selection, modal, generating flag, fetcher).         *)
(*                                                                         *)
(* The handler is modelled one step per awaited external call; the outcome *)
(* of each call (GraphQL lookup, image fetch, generation endpoint, update  *)
(* mutation) is drawn from a bounded set of outcomes.                      *)
(*                                                                         *)
(* Two specifications:                                                     *)
(*   SpecAction  the handler serving arbitrary POST payloads               *)
(*   Spec        the Index component driving the handler via its fetcher   *)
(***************************************************************************)
EXTENDS Integers, Sequences, FiniteSets, TLC

VARIABLES
    \* ---- server: one run of `action` ----
    pc,             \* position of the handler: idle/start/update/lookup/image/ai/done
    formData,       \* the fields read from request.formData()
    productData,    \* title, variants and imageUrl read from the lookup reply
    imageBase64,    \* `let imageBase64`
    requestData,    \* the body composed for the generation endpoint
    calls,          \* number of external calls issued by this run, per collaborator
    seen,           \* the outcome each external call produced in this run
    response,       \* what the handler gave back: an envelope, or a raised exception
    \* ---- client: the Index component ----
    selectedProduct,
    isModalOpen,
    isGeneratingDescription,
    fetcherState,   \* fetcher.state
    fetcherData,    \* fetcher.data
    lastSubmit,     \* the payload of the latest fetcher.submit
    generated,      \* the latest generate reply: its description and the product id asked for
    errorBoundary,  \* the route rendered its error boundary instead of Index
    lastEvent       \* the latest user event or fetcher event seen by the component

serverVars == <<pc, formData, productData, imageBase64, requestData, calls, seen, response>>
clientVars == <<selectedProduct, isModalOpen, isGeneratingDescription, fetcherState,
                fetcherData, lastSubmit, generated, errorBoundary, lastEvent>>
vars == <<pc, formData, productData, imageBase64, requestData, calls, seen, response,
          selectedProduct, isModalOpen, isGeneratingDescription, fetcherState,
          fetcherData, lastSubmit, generated, errorBoundary, lastEvent>>

-----------------------------------------------------------------------------
(* Values *)

\* JavaScript null / undefined (an absent field).
Null == "<null>"

\* JavaScript truthiness of a string-or-absent value.
Truthy(v) == v # Null /\ v # ""

\* Bounds of the model.
MaxBody == 2        \* longest image body, in bytes
MaxContent == 1     \* longest `content` list of a generation reply
MaxVariants == 1    \* longest variant list of a product

ByteSample == {0, 255}

\* Sequences over S of length at most n.
SeqsUpTo(S, n) == UNION {[1..k -> S] : k \in 0..n}

Products == {"gid://shopify/Product/1", "gid://shopify/Product/2"}

ProductIds == Products \cup {Null, ""}
Actions == {"generate", "update", "summarize", Null}
Descriptions == {Null, "", "A lovely mug."}

FormDatas == [productId : ProductIds, action : Actions, description : Descriptions]
NoFormData == [productId |-> Null, action |-> Null, description |-> Null]

\* The fixed placeholder text (the source writes the apostrophe as a grave accent).
PlaceholderText == "Failed to generate description. Let's try use this one for demo purposes."
ProductIdRequired == "Product ID is required"
UpdateFailed == "Failed to update product description"
GenerateFailed == "Failed to generate description. Please try again later."

-----------------------------------------------------------------------------
(* Envelopes: what `json(...)` returns, or an exception leaving the handler *)

json(status, error, description, success, onlineStoreUrl) ==
    [raised |-> FALSE, status |-> status, error |-> error, description |-> description,
     success |-> success, onlineStoreUrl |-> onlineStoreUrl]

\* An exception thrown out of `action` (no envelope is produced).
Raised ==
    [raised |-> TRUE, status |-> 0, error |-> Null, description |-> Null,
     success |-> FALSE, onlineStoreUrl |-> Null]

\* No response yet; also the value of `fetcher.data` before any reply (undefined).
NoResponse ==
    [raised |-> FALSE, status |-> 0, error |-> Null, description |-> Null,
     success |-> FALSE, onlineStoreUrl |-> Null]

-----------------------------------------------------------------------------
(* Outcomes of the external calls *)

Variants == {[title |-> "Default", price |-> "12.00"]}

\* admin.graphql(query product): rejects, resolves with product: null, or with a product.
LookupOutcomes ==
    {[kind |-> "reject", title |-> Null, variants |-> <<>>, imageUrl |-> Null],
     [kind |-> "notFound", title |-> Null, variants |-> <<>>, imageUrl |-> Null]}
    \cup [kind : {"found"}, title : {"Blue Mug"},
          variants : SeqsUpTo(Variants, MaxVariants),
          imageUrl : {Null, "https://cdn/mug.jpg"}]

\* fetch(imageUrl): rejects (transport failure), or resolves with any status and a body.
ImageOutcomes ==
    {[kind |-> "reject", ok |-> FALSE, body |-> <<>>]}
    \cup [kind : {"response"}, ok : BOOLEAN, body : SeqsUpTo(ByteSample, MaxBody)]

\* Elements of a reply's `content` list: with or without a `text` field.
ContentItems ==
    {[hasText |-> FALSE, text |-> Null]}
    \cup [hasText : {TRUE}, text : {"", "A lovely mug.", "A sturdy mug."}]

\* Body of a generation reply: not JSON, the JSON value null, or an object
\* with or without a `content` list.
AiBodies ==
    {[parse |-> "fail", hasContent |-> FALSE, content |-> <<>>],
     [parse |-> "null", hasContent |-> FALSE, content |-> <<>>],
     [parse |-> "object", hasContent |-> FALSE, content |-> <<>>]}
    \cup [parse : {"object"}, hasContent : {TRUE}, content : SeqsUpTo(ContentItems, MaxContent)]

NoBody == [parse |-> "object", hasContent |-> FALSE, content |-> <<>>]

HttpStatuses == {200, 201, 401, 500}

\* fetch(generation endpoint): rejects (transport failure), or resolves with a status.
\* The body of a non-2xx reply is never read by the handler.
AiOutcomes ==
    {[kind |-> "reject", status |-> 0, body |-> NoBody]}
    \cup [kind : {"response"}, status : {401, 500}, body : {NoBody}]
    \cup [kind : {"response"}, status : {200, 201}, body : AiBodies]

\* admin.graphql(productUpdate): rejects, resolves with product: null, or with the urls.
UpdateOutcomes ==
    {[kind |-> "reject", onlineStoreUrl |-> Null, onlineStorePreviewUrl |-> Null],
     [kind |-> "noProduct", onlineStoreUrl |-> Null, onlineStorePreviewUrl |-> Null]}
    \cup [kind : {"product"}, onlineStoreUrl : {Null, "https://shop/mug"},
          onlineStorePreviewUrl : {Null, "https://shop/preview/mug"}]

NoCalls == [lookup |-> 0, image |-> 0, gen |-> 0, update |-> 0]

NoLookup == [kind |-> "none", title |-> Null, variants |-> <<>>, imageUrl |-> Null]
NoImage == [kind |-> "none", ok |-> FALSE, body |-> <<>>]
NoAi == [kind |-> "none", status |-> 0, body |-> NoBody]
NoUpdate == [kind |-> "none", onlineStoreUrl |-> Null, onlineStorePreviewUrl |-> Null]
NoneSeen == [lookup |-> NoLookup, image |-> NoImage, ai |-> NoAi, update |-> NoUpdate]

NoProductData == [title |-> Null, variants |-> <<>>, imageUrl |-> Null]
Undefined == [defined |-> FALSE, chars |-> <<>>]
NoRequestData ==
    [composed |-> FALSE,
     prompt |-> [title |-> Null, variants |-> <<>>, imageClause |-> FALSE],
     image |-> [attached |-> FALSE, data |-> <<>>]]

-----------------------------------------------------------------------------
(* The handler's pure parts *)

\* Variant of missingProductId that tests for absence only (`productId == null`).
missingProductIdNullOnly(productId) == productId = Null

\* `!productId`: the identifier is missing when it is absent or empty.
missingProductId(productId) == ~Truthy(productId)

\* Variant of isUpdate that sends everything but "generate" to the update path.
isUpdateUnlessGenerate(a) == a # "generate"

\* `action === "update"`.
isUpdate(a) == a = "update"

\* Where the handler goes after reading the form: the 400 reply, the update
\* path, or (for every other action value) the generate path.
dispatch(fd) ==
    IF missingProductId(fd.productId) THEN "done"
    ELSE IF isUpdate(fd.action) THEN "update"
    ELSE "lookup"

\* JavaScript `a || b` on string-or-absent values.
Or(a, b) == IF Truthy(a) THEN a ELSE b

\* Variant of updateResult that prefers the preview url to the live url.
updateResultPreviewFirst(outcome) ==
    IF outcome.kind = "product"
    THEN json(200, Null, Null, TRUE, Or(outcome.onlineStorePreviewUrl, outcome.onlineStoreUrl))
    ELSE json(500, UpdateFailed, Null, FALSE, Null)

\* The update path's try/catch: a rejected mutation, or a reply whose product
\* is null (reading its url throws), is caught and becomes the 500 envelope.
updateResult(outcome) ==
    IF outcome.kind = "product"
    THEN json(200, Null, Null, TRUE, Or(outcome.onlineStoreUrl, outcome.onlineStorePreviewUrl))
    ELSE json(500, UpdateFailed, Null, FALSE, Null)

\* The lookup is awaited outside any try block: a rejected query, or a reply
\* whose product is null (reading its title throws), leaves the handler as an
\* exception.
lookupThrows(outcome) == outcome.kind # "found"

\* The image fetch is awaited outside any try block: a rejected fetch leaves
\* the handler as an exception. The reply's status is not looked at.
imageThrows(outcome) == outcome.kind # "response"

\* Buffer.from(bytes).toString('base64'): sextets 0..63, and 64 for the '=' padding.
RECURSIVE Base64(_)
Base64(bytes) ==
    IF Len(bytes) = 0 THEN <<>>
    ELSE IF Len(bytes) = 1
    THEN <<bytes[1] \div 4, (bytes[1] % 4) * 16, 64, 64>>
    ELSE IF Len(bytes) = 2
    THEN <<bytes[1] \div 4, (bytes[1] % 4) * 16 + bytes[2] \div 16, (bytes[2] % 16) * 4, 64>>
    ELSE <<bytes[1] \div 4, (bytes[1] % 4) * 16 + bytes[2] \div 16,
           (bytes[2] % 16) * 4 + bytes[3] \div 64, bytes[3] % 64>>
         \o Base64(SubSeq(bytes, 4, Len(bytes)))

\* Truthiness of `imageBase64`: undefined and the empty string are falsy.
TruthyImage(b64) == b64.defined /\ Len(b64.chars) > 0

\* edge => `${edge.node.title} - $${edge.node.price}`
variantLine(v) == <<v.title, " - $", v.price>>

\* The request body: the prompt carries the image clause when `imageUrl` is
\* truthy, the image block is attached when `imageBase64` is truthy.
composeRequestData(pd, b64) ==
    [composed |-> TRUE,
     prompt |-> [title |-> pd.title,
                 variants |-> [i \in 1..Len(pd.variants) |-> variantLine(pd.variants[i])],
                 imageClause |-> Truthy(pd.imageUrl)],
     image |-> IF TruthyImage(b64)
               THEN [attached |-> TRUE, data |-> b64.chars]
               ELSE [attached |-> FALSE, data |-> <<>>]]

\* Response.ok
isOk(status) == status \in 200..299

\* `!json.content || !json.content[0] || !json.content[0].text`
unexpectedFormat(body) ==
    \/ ~body.hasContent
    \/ Len(body.content) = 0
    \/ ~body.content[1].hasText
    \/ ~Truthy(body.content[1].text)

\* Variant of aiResult that reports a non-2xx reply as the 500 error envelope.
aiResultNon2xxIsError(outcome) ==
    IF outcome.kind = "reject" THEN json(500, GenerateFailed, Null, FALSE, Null)
    ELSE IF ~isOk(outcome.status) THEN json(500, GenerateFailed, Null, FALSE, Null)
    ELSE IF outcome.body.parse # "object" THEN json(500, GenerateFailed, Null, FALSE, Null)
    ELSE IF unexpectedFormat(outcome.body) THEN json(200, Null, PlaceholderText, FALSE, Null)
    ELSE json(200, Null, outcome.body.content[1].text, FALSE, Null)

\* Variant of aiResult whose catch block answers with the placeholder as well.
aiResultCatchGivesPlaceholder(outcome) ==
    IF outcome.kind = "reject" THEN json(200, Null, PlaceholderText, FALSE, Null)
    ELSE IF ~isOk(outcome.status) THEN json(200, Null, PlaceholderText, FALSE, Null)
    ELSE IF outcome.body.parse # "object" THEN json(200, Null, PlaceholderText, FALSE, Null)
    ELSE IF unexpectedFormat(outcome.body) THEN json(200, Null, PlaceholderText, FALSE, Null)
    ELSE json(200, Null, outcome.body.content[1].text, FALSE, Null)

\* Variant of aiResult whose non-2xx branch adds the error to the placeholder.
aiResultErrorWithPlaceholder(outcome) ==
    IF outcome.kind = "reject" THEN json(500, GenerateFailed, Null, FALSE, Null)
    ELSE IF ~isOk(outcome.status) THEN json(500, GenerateFailed, PlaceholderText, FALSE, Null)
    ELSE IF outcome.body.parse # "object" THEN json(500, GenerateFailed, Null, FALSE, Null)
    ELSE IF unexpectedFormat(outcome.body) THEN json(200, Null, PlaceholderText, FALSE, Null)
    ELSE json(200, Null, outcome.body.content[1].text, FALSE, Null)

\* The generation step's try/catch. A non-2xx reply and a reply of unexpected
\* format give the placeholder; a rejected fetch, a body that is not JSON
\* (json() throws) and the JSON value null (reading .content throws) are
\* caught and give the 500 error envelope.
aiResult(outcome) ==
    IF outcome.kind = "reject" THEN json(500, GenerateFailed, Null, FALSE, Null)
    ELSE IF ~isOk(outcome.status) THEN json(200, Null, PlaceholderText, FALSE, Null)
    ELSE IF outcome.body.parse # "object" THEN json(500, GenerateFailed, Null, FALSE, Null)
    ELSE IF unexpectedFormat(outcome.body) THEN json(200, Null, PlaceholderText, FALSE, Null)
    ELSE json(200, Null, outcome.body.content[1].text, FALSE, Null)

-----------------------------------------------------------------------------
(* The handler's steps *)

ServerIdle ==
    /\ pc = "idle"
    /\ formData = NoFormData
    /\ productData = NoProductData
    /\ imageBase64 = Undefined
    /\ requestData = NoRequestData
    /\ calls = NoCalls
    /\ seen = NoneSeen
    /\ response = NoResponse

\* A POST reaches the route: the handler starts on its form data.
StartRun(fd) ==
    /\ pc = "idle"
    /\ pc' = "start"
    /\ formData' = fd
    /\ UNCHANGED <<productData, imageBase64, requestData, calls, seen, response>>

\* The handler's result has been sent; the run is over.
EndRun ==
    /\ pc' = "idle"
    /\ formData' = NoFormData
    /\ productData' = NoProductData
    /\ imageBase64' = Undefined
    /\ requestData' = NoRequestData
    /\ calls' = NoCalls
    /\ seen' = NoneSeen
    /\ response' = NoResponse

\* Read the form, reject a missing product id, choose the path.
Validate ==
    /\ pc = "start"
    /\ pc' = dispatch(formData)
    /\ response' = IF dispatch(formData) = "done"
                   THEN json(400, ProductIdRequired, Null, FALSE, Null)
                   ELSE response
    /\ UNCHANGED <<formData, productData, imageBase64, requestData, calls, seen>>
    /\ UNCHANGED clientVars

\* The update path: one productUpdate mutation, then the reply.
UpdateStep ==
    /\ pc = "update"
    /\ \E outcome \in UpdateOutcomes :
        /\ calls' = [calls EXCEPT !.update = @ + 1]
        /\ seen' = [seen EXCEPT !.update = outcome]
        /\ response' = updateResult(outcome)
    /\ pc' = "done"
    /\ UNCHANGED <<formData, productData, imageBase64, requestData>>
    /\ UNCHANGED clientVars

\* The generate path, first call: the single-product query.
LookupStep ==
    /\ pc = "lookup"
    /\ \E outcome \in LookupOutcomes :
        /\ calls' = [calls EXCEPT !.lookup = @ + 1]
        /\ seen' = [seen EXCEPT !.lookup = outcome]
        /\ IF lookupThrows(outcome)
           THEN /\ response' = Raised
                /\ pc' = "done"
                /\ UNCHANGED <<productData, requestData>>
           ELSE LET pd == [title |-> outcome.title, variants |-> outcome.variants,
                           imageUrl |-> outcome.imageUrl]
                IN  /\ productData' = pd
                    /\ response' = response
                    /\ IF Truthy(pd.imageUrl)
                       THEN /\ pc' = "image"
                            /\ UNCHANGED requestData
                       ELSE /\ pc' = "ai"
                            /\ requestData' = composeRequestData(pd, imageBase64)
    /\ UNCHANGED <<formData, imageBase64>>
    /\ UNCHANGED clientVars

\* The generate path, second call (only with an image url): fetch and encode.
ImageStep ==
    /\ pc = "image"
    /\ \E outcome \in ImageOutcomes :
        /\ calls' = [calls EXCEPT !.image = @ + 1]
        /\ seen' = [seen EXCEPT !.image = outcome]
        /\ IF imageThrows(outcome)
           THEN /\ response' = Raised
                /\ pc' = "done"
                /\ UNCHANGED <<imageBase64, requestData>>
           ELSE LET b64 == [defined |-> TRUE, chars |-> Base64(outcome.body)]
                IN  /\ imageBase64' = b64
                    /\ requestData' = composeRequestData(productData, b64)
                    /\ response' = response
                    /\ pc' = "ai"
    /\ UNCHANGED <<formData, productData>>
    /\ UNCHANGED clientVars

\* The generate path, last call: post the request, read the reply.
AiStep ==
    /\ pc = "ai"
    /\ \E outcome \in AiOutcomes :
        /\ calls' = [calls EXCEPT !.gen = @ + 1]
        /\ seen' = [seen EXCEPT !.ai = outcome]
        /\ response' = aiResult(outcome)
    /\ pc' = "done"
    /\ UNCHANGED <<formData, productData, imageBase64, requestData>>
    /\ UNCHANGED clientVars

HandlerStep == Validate \/ UpdateStep \/ LookupStep \/ ImageStep \/ AiStep

-----------------------------------------------------------------------------
(* SpecAction: the handler serving arbitrary POST payloads *)

\* Any client posts any form to the route.
Request ==
    /\ \E fd \in FormDatas : StartRun(fd)
    /\ UNCHANGED clientVars

\* The reply leaves the server.
Respond ==
    /\ pc = "done"
    /\ EndRun
    /\ UNCHANGED clientVars

\* No generate request has been answered yet.
NothingGenerated == [productId |-> Null, text |-> Null]

ClientInit ==
    /\ selectedProduct = ""
    /\ isModalOpen = FALSE
    /\ isGeneratingDescription = FALSE
    /\ fetcherState = "idle"
    /\ fetcherData = NoResponse
    /\ lastSubmit = NoFormData
    /\ generated = NothingGenerated
    /\ errorBoundary = FALSE
    /\ lastEvent = "mount"

Init == ServerIdle /\ ClientInit

NextAction == Request \/ Validate \/ UpdateStep \/ LookupStep \/ ImageStep \/ AiStep \/ Respond

SpecAction == Init /\ [][NextAction]_vars

-----------------------------------------------------------------------------
(* The Index component *)

\* The JSON body of a returned envelope, as the fetcher hands it to the component.
dataOf(envelope) == [envelope EXCEPT !.status = 0, !.raised = FALSE]

\* navigation.state: the component starts no navigation, so it is never "submitting".
navigationState == "idle"

isLoading == fetcherState = "submitting" \/ navigationState = "submitting"

\* products.find(p => p.node.id === selectedProduct)?.node is defined.
selectedProductDetails == selectedProduct \in Products

\* What the component renders.
ErrorBannerShown == ~errorBoundary /\ Truthy(fetcherData.error)
\* Variant of ListShown that keeps the list while a description is reviewed.
ListShownWhileReviewing == ~errorBoundary /\ ~isGeneratingDescription

ListShown ==
    ~errorBoundary /\ ~isGeneratingDescription /\ ~Truthy(fetcherData.description)
ReviewPanelShown ==
    /\ ~errorBoundary
    /\ isGeneratingDescription \/ Truthy(fetcherData.description)
    /\ selectedProductDetails
SpinnerShown == ReviewPanelShown /\ isGeneratingDescription
ReviewControlsShown == ReviewPanelShown /\ ~isGeneratingDescription

\* fetcher.submit(payload, {method: "POST"}): the POST reaches the handler.
submit(payload) ==
    /\ fetcherState' = "submitting"
    /\ lastSubmit' = payload
    /\ StartRun(payload)

\* Clicking a product of the list.
handleProductSelect(value) ==
    /\ ListShown /\ ~isModalOpen
    /\ selectedProduct' = value
    /\ isModalOpen' = TRUE
    /\ lastEvent' = "select"
    /\ UNCHANGED <<isGeneratingDescription, fetcherState, fetcherData, lastSubmit, generated,
                   errorBoundary>>
    /\ UNCHANGED serverVars

\* The modal's Close action, close button or backdrop.
handleModalClose ==
    /\ ~errorBoundary /\ isModalOpen
    /\ isModalOpen' = FALSE
    /\ lastEvent' = "close"
    /\ UNCHANGED <<selectedProduct, isGeneratingDescription, fetcherState, fetcherData,
                   lastSubmit, generated, errorBoundary>>
    /\ UNCHANGED serverVars

\* Variant of generateDescription that leaves the modal as it is.
generateDescriptionKeepsModal(productId) ==
    /\ isGeneratingDescription' = TRUE
    /\ isModalOpen' = isModalOpen
    /\ submit([productId |-> productId, action |-> "generate", description |-> Null])
    /\ UNCHANGED <<selectedProduct, fetcherData, generated, errorBoundary>>

generateDescription(productId) ==
    /\ isGeneratingDescription' = TRUE
    /\ isModalOpen' = FALSE
    /\ submit([productId |-> productId, action |-> "generate", description |-> Null])
    /\ UNCHANGED <<selectedProduct, fetcherData, generated, errorBoundary>>

updateDescription(productId, description) ==
    /\ submit([productId |-> productId, action |-> "update", description |-> description])
    /\ UNCHANGED <<selectedProduct, isModalOpen, isGeneratingDescription, fetcherData,
                   generated, errorBoundary>>

\* The modal's primary action, "Generate Description".
ModalGenerate ==
    /\ ~errorBoundary /\ isModalOpen
    /\ generateDescription(selectedProduct)
    /\ lastEvent' = "generate"

\* "Regenerate" in the review panel (a loading button takes no click).
Regenerate ==
    /\ ReviewControlsShown /\ ~isModalOpen /\ ~isLoading
    /\ generateDescription(selectedProduct)
    /\ lastEvent' = "regenerate"

\* "Use This Description" in the review panel (a loading button takes no click).
UseThisDescription ==
    /\ ReviewControlsShown /\ ~isModalOpen /\ ~isLoading
    /\ updateDescription(selectedProduct, Or(fetcherData.description, ""))
    /\ lastEvent' = "use"

\* "Select Another Product" in the review panel: setIsGeneratingDescription(false).
SelectAnotherProduct ==
    /\ ReviewControlsShown /\ ~isModalOpen
    /\ isGeneratingDescription' = FALSE
    /\ lastEvent' = "selectAnother"
    /\ UNCHANGED <<selectedProduct, isModalOpen, fetcherState, fetcherData, lastSubmit,
                   generated, errorBoundary>>
    /\ UNCHANGED serverVars

\* useEffect(..., [fetcher.data?.error, fetcher.data?.description]): the effect
\* runs after a render in which one of the two dependencies changed.
effectRuns(old, new) == old.error # new.error \/ old.description # new.description

\* The effect's body: clear the flag when the data has an error or a description.
afterEffect(old, new, generating) ==
    IF effectRuns(old, new) /\ (Truthy(new.error) \/ Truthy(new.description))
    THEN FALSE
    ELSE generating

\* The handler's reply reaches the fetcher. A returned envelope (of any status)
\* becomes fetcher.data, replacing the data kept from the previous submission;
\* an exception thrown by the handler puts the route in its error boundary.
Deliver ==
    /\ pc = "done" /\ fetcherState = "submitting"
    /\ IF response.raised
       THEN /\ errorBoundary' = TRUE
            /\ fetcherState' = "idle"
            /\ lastEvent' = "thrown"
            /\ UNCHANGED <<fetcherData, isGeneratingDescription, generated>>
       ELSE /\ fetcherData' = dataOf(response)
            /\ fetcherState' = "loading"
            /\ isGeneratingDescription' =
                   afterEffect(fetcherData, dataOf(response), isGeneratingDescription)
            /\ generated' = IF formData.action # "update"
                            THEN [productId |-> formData.productId,
                                  text |-> response.description]
                            ELSE generated
            /\ lastEvent' = "response"
            /\ UNCHANGED errorBoundary
    /\ EndRun
    /\ UNCHANGED <<selectedProduct, isModalOpen, lastSubmit>>

\* The revalidation that follows an action reply ends.
Revalidated ==
    /\ fetcherState = "loading"
    /\ fetcherState' = "idle"
    /\ lastEvent' = "revalidated"
    /\ UNCHANGED <<selectedProduct, isModalOpen, isGeneratingDescription, fetcherData,
                   lastSubmit, generated, errorBoundary>>
    /\ UNCHANGED serverVars

Next ==
    \/ \E value \in Products : handleProductSelect(value)
    \/ handleModalClose
    \/ ModalGenerate
    \/ Regenerate
    \/ UseThisDescription
    \/ SelectAnotherProduct
    \/ Validate
    \/ UpdateStep
    \/ LookupStep
    \/ ImageStep
    \/ AiStep
    \/ Deliver
    \/ Revalidated

Spec == Init /\ [][Next]_vars

\* Sanity of the composition: a run is in flight exactly while the fetcher submits.
InFlightInv == (pc # "idle") <=> (fetcherState = "submitting")
ModalNotWhileSubmitting == isModalOpen => fetcherState # "submitting"
ModalNotWithReview == isModalOpen => ~ReviewPanelShown

-----------------------------------------------------------------------------
(* Properties of the handler, checked under SpecAction *)

\* The success-shaped envelope carrying the fixed placeholder text.
PlaceholderEnvelope == json(200, Null, PlaceholderText, FALSE, Null)

\* An error-shaped envelope: `error` set, nothing else.
ErrorShaped(r) ==
    /\ ~r.raised
    /\ Truthy(r.error)
    /\ r.description = Null
    /\ ~r.success
    /\ r.onlineStoreUrl = Null

\* An external call of the finished run failed.
ExternalFailure ==
    \/ seen.lookup.kind \in {"reject", "notFound"}
    \/ seen.image.kind = "reject"
    \/ seen.ai.kind = "reject"
    \/ seen.update.kind = "reject"

\* C1: whenever an external call of a run failed (lookup rejected or product
\* not resolved, image fetch rejected, generation call rejected, update
\* mutation rejected), the run ends with an {error} envelope and no exception
\* leaves the handler.
C1_FailuresBecomeErrorEnvelopes ==
    (pc = "done" /\ ExternalFailure) => ErrorShaped(response)

\* C2: when the generation endpoint answers with a non-2xx status, the run ends
\* with the success-shaped placeholder envelope: description is the fixed
\* placeholder text, no error field, no error status.
C2_Non2xxGivesPlaceholder ==
    (pc = "done" /\ seen.ai.kind = "response" /\ seen.ai.status \notin 200..299)
        => response = PlaceholderEnvelope

C2_Witness ==
    /\ pc = "done"
    /\ Truthy(formData.productId)
    /\ seen.lookup.kind = "found"
    /\ seen.ai.kind = "response" /\ seen.ai.status = 500
    /\ response.description = PlaceholderText
    /\ response.status = 200

\* C3: when the call to the generation endpoint fails at transport level, the
\* run ends with an error-shaped envelope (error set, no description), with
\* status 500, and not with the placeholder description.
C3_TransportFailureGivesError ==
    (pc = "done" /\ seen.ai.kind = "reject")
        => /\ ErrorShaped(response)
           /\ response.status = 500
           /\ response.description # PlaceholderText

C3_Witness ==
    /\ pc = "done"
    /\ Truthy(formData.productId)
    /\ seen.lookup.kind = "found"
    /\ calls.gen = 1
    /\ seen.ai.kind = "reject"
    /\ response.error = GenerateFailed

\* C4: a run whose form has no product identifier (absent or empty), whatever
\* its action value, issues no external call at any point and ends with the
\* validation error: status 400, error set.
C4_MissingIdNoExternalCalls ==
    (pc # "idle" /\ formData.productId \in {Null, ""})
        => /\ calls = NoCalls
           /\ seen = NoneSeen
           /\ pc \in {"start", "done"}
           /\ pc = "done" => (ErrorShaped(response) /\ response.status = 400)

C4_Witness ==
    /\ pc = "done"
    /\ formData.productId = ""
    /\ formData.action = "update"
    /\ response.status = 400
    /\ response.error = ProductIdRequired

\* C5: a finished run with a non-empty product id took exactly one path, once.
\* With action "update" (any description) it issued the update mutation once
\* and no lookup, image fetch or generation call; with any other action value
\* it entered the generate path once (one lookup), issued no update mutation
\* and at most one generation call: exactly one unless an exception ended the
\* run before the generation step. No run both writes and generates.
C5_ExactlyOnePath ==
    /\ ~(calls.update > 0 /\ calls.lookup + calls.image + calls.gen > 0)
    /\ (pc = "done" /\ Truthy(formData.productId)) =>
           IF formData.action = "update"
           THEN calls = [lookup |-> 0, image |-> 0, gen |-> 0, update |-> 1]
           ELSE /\ calls.lookup = 1
                /\ calls.update = 0
                /\ calls.gen = IF response.raised THEN 0 ELSE 1

C5_Witness ==
    /\ pc = "done"
    /\ formData.productId \in Products
    /\ formData.action = "update"
    /\ formData.description = ""
    /\ calls.update = 1
    /\ response.success

\* C6: when the image fetch of a generate run fails (the fetch is rejected, or
\* answers with an error status), the generation request is still submitted,
\* without an image block, and the run's result is the generation step's.
C6_ImageFailureIsNonFatal ==
    (pc = "done" /\ (seen.image.kind = "reject"
                     \/ (seen.image.kind = "response" /\ ~seen.image.ok)))
        => /\ ~response.raised
           /\ calls.gen = 1
           /\ requestData.composed
           /\ ~requestData.image.attached

\* The reply body has the expected shape: content[0].text is a non-empty text.
WellFormedBody(body) ==
    /\ body.parse = "object"
    /\ body.hasContent
    /\ Len(body.content) > 0
    /\ body.content[1].hasText
    /\ body.content[1].text \notin {Null, ""}

\* C7: for a 2xx reply of the generation endpoint, a body of the expected shape
\* gives {description: content[0].text}; every other body (no content, empty
\* content list, first element without text, empty text, not JSON) gives the
\* success-shaped placeholder envelope, never an error envelope.
C7_ShapeDeviationGivesPlaceholder ==
    (pc = "done" /\ seen.ai.kind = "response" /\ seen.ai.status \in 200..299)
        => IF WellFormedBody(seen.ai.body)
           THEN response = json(200, Null, seen.ai.body.content[1].text, FALSE, Null)
           ELSE response = PlaceholderEnvelope

\* C11: a successful update run returns {success: true, onlineStoreUrl} where
\* onlineStoreUrl is the live storefront url when the mutation reply has one
\* (also when it has a preview url too), otherwise the preview url when the
\* reply has one, otherwise null.
C11_LiveUrlPreferred ==
    (pc = "done" /\ seen.update.kind = "product")
        => /\ response.success
           /\ response.error = Null
           /\ response.status = 200
           /\ response.onlineStoreUrl =
                  IF seen.update.onlineStoreUrl # Null THEN seen.update.onlineStoreUrl
                  ELSE IF seen.update.onlineStorePreviewUrl # Null
                       THEN seen.update.onlineStorePreviewUrl
                       ELSE Null

C11_Witness ==
    /\ pc = "done"
    /\ seen.update.kind = "product"
    /\ seen.update.onlineStoreUrl = "https://shop/mug"
    /\ seen.update.onlineStorePreviewUrl = "https://shop/preview/mug"
    /\ response.success
    /\ response.onlineStoreUrl = "https://shop/mug"

\* C12: every envelope a run returns, on every path, is either success-shaped
\* or error-shaped and never both: with error set, neither description nor
\* success is set; with description or success set, error is not.
C12_SuccessXorError ==
    (pc = "done" /\ ~response.raised)
        => /\ (response.error # Null) => (response.description = Null /\ ~response.success)
           /\ (response.description # Null \/ response.success) => response.error = Null
           /\ response.error # Null \/ response.description # Null \/ response.success

C12_Witness ==
    /\ pc = "done"
    /\ formData.action = "update"
    /\ seen.update.kind = "reject"
    /\ response.error = UpdateFailed
    /\ response.status = 500
    /\ ~response.success

\* C15: in every generation request the handler composes, the prompt has the
\* image-context clause if and only if an image block is attached.
C15_ClauseIffImageBlock ==
    requestData.composed => (requestData.prompt.imageClause <=> requestData.image.attached)

-----------------------------------------------------------------------------
(* Properties of the Index component, checked under Spec *)

\* C8: once the reply to a generate request (from the modal or from
\* Regenerate) has arrived, the component is no longer generating: the flag is
\* cleared and the spinner is gone.
C8_ReplyEndsGenerating ==
    (lastEvent = "response" /\ lastSubmit.action = "generate")
        => (~isGeneratingDescription /\ ~SpinnerShown)

\* C9: right after "Select Another Product" is activated in the Reviewing state
\* (a description is displayed, no request in flight), the product list is
\* shown and the review panel is not.
C9_SelectAnotherShowsList ==
    (lastEvent = "selectAnother" /\ fetcherState # "submitting")
        => (ListShown /\ ~ReviewPanelShown)

\* C10: right after a generate request ended with an error reply, the error
\* banner is shown together with the review panel of the selected product
\* (with its Regenerate control), and the product list is not shown.
C10_ErrorReplyGoesToReviewing ==
    (lastEvent = "response" /\ lastSubmit.action = "generate" /\ Truthy(fetcherData.error))
        => (ErrorBannerShown /\ ReviewControlsShown /\ ~ListShown)

\* C13: whenever a generated description is displayed for review, it is the
\* description of the latest generate reply and that request was issued for
\* the selected product id; and every update request submitted by "Use This
\* Description" carries that description together with the product id it was
\* generated for.
C13_DescriptionMatchesProduct ==
    /\ ReviewControlsShown =>
           /\ fetcherData.description = generated.text
           /\ selectedProduct = generated.productId
    /\ lastSubmit.action = "update" =>
           /\ lastSubmit.productId = generated.productId
           /\ lastSubmit.description = generated.text

C13_Witness ==
    /\ lastEvent = "use"
    /\ fetcherState = "submitting"
    /\ lastSubmit.action = "update"
    /\ lastSubmit.productId = "gid://shopify/Product/2"
    /\ lastSubmit.description = "A sturdy mug."
    /\ generated = [productId |-> "gid://shopify/Product/2", text |-> "A sturdy mug."]

\* C14: the detail modal is never open while a description is generating.
C14_ModalNotWhileGenerating == ~(isModalOpen /\ isGeneratingDescription)

C14_Witness ==
    /\ lastEvent = "generate"
    /\ isGeneratingDescription
    /\ ~isModalOpen
    /\ fetcherState = "submitting"

====
